---------------------------- MODULE Spec2Model ----------------------------
(*************************************************************************)
(* reimu: recovery of C++ class metadata (RTTI inheritance trees and     *)
(* virtual-function tables) from a 32-bit little-endian ELF image.       *)
(*                                                                       *)
(* The module models                                                     *)
(*   - BinReader (src/src/binreader.rs): a std::io::Cursor over an       *)
(*     immutable byte buffer, with its read_* and set_position*          *)
(*     operations;                                                       *)
(*   - handle_typename, handle_vtable and get_class_vtable               *)
(*     (src/src/main.rs), step by step;                                  *)
(*   - the main-struct field computation of the dump-vtable-ida branch   *)
(*     of main (src/src/main.rs).                                        *)
(*                                                                       *)
(* Option<T> is modelled as a sequence of length at most one: None is    *)
(* <<>> and Some(v) is <<v>>.  A String is modelled by its bytes.        *)
(*************************************************************************)
EXTENDS Integers, Sequences, FiniteSets, TLC

VARIABLES
    data,             \* BinReader.data: the byte buffer (never written)
    pos,              \* BinReader.cursor position (u64)
    overflow_checks,  \* build profile: "on" panics on integer overflow, "off" wraps,
                      \* "either" while no overflow has told the two apart
    ret,              \* outcome of the last BinReader call (reader specification)
    status,           \* of the decoding call: "idle", "running", "returned", "panicked"
    truncated,        \* a 4-byte read of the decoding call came back None
    pc,               \* get_class_vtable / handle_vtable: the statement to run next
    vtable_addr,      \* get_class_vtable: argument
    cxxabi_offsets,   \* get_class_vtable: argument
    class_typeinfo,   \* get_class_vtable: local
    table_offset,     \* get_class_vtable: local
    result,           \* get_class_vtable: local, the groups pushed so far
    offset_to_this,   \* handle_vtable: local
    function_pointers, \* handle_vtable: local
    stack,            \* handle_typename: the activations, innermost last
    inherit_info,     \* main: the Class tree handle_typename fills in
    start_data_rel_ro, \* handle_typename: argument
    rtti_class_offsets, \* handle_typename: argument
    dump,             \* main: the groups get_class_vtable returned
    addr_to_sym,      \* main: address -> the kind of symbol it names
    tables_done,      \* main: how many groups `for table in dump` has taken
    main_class_fields, \* main: local
    last_offset_to_this, \* main: local
    filler_counter    \* main: local

readerVars == <<data, pos, overflow_checks, ret>>

callVars == <<status, truncated>>

vtVars == <<pc, vtable_addr, cxxabi_offsets, class_typeinfo, table_offset,
            result, offset_to_this, function_pointers>>

tnVars == <<stack, inherit_info, start_data_rel_ro, rtti_class_offsets>>

dmVars == <<dump, addr_to_sym, tables_done, main_class_fields,
            last_offset_to_this, filler_counter>>

vars == <<readerVars, callVars, vtVars, tnVars, dmVars>>

\* what the BinReader specification leaves alone
notReader == <<callVars, vtVars, tnVars, dmVars>>

\* what the vtable specification leaves alone
notVtable == <<ret, tnVars, dmVars>>

\* what the handle_typename specification leaves alone
notTypename == <<ret, vtVars, dmVars>>

\* what the struct-dump specification leaves alone
notDump == <<data, pos, ret, truncated, vtVars, tnVars>>

-----------------------------------------------------------------------------
(* Bounds of the model *)

\* Longest buffer, in bytes, of the BinReader specification.
MaxLen == 5

\* set_position arguments go up to MaxLen + PosSlack.
PosSlack == 2

-----------------------------------------------------------------------------
(* Integer widths.                                                        *)
(*                                                                        *)
(* A 32-bit value (u32 or i32) is represented by the integer in           *)
(* -2^31 .. 2^31-1 congruent to it modulo 2^32 (its two's-complement      *)
(* reading): an i32 is its representative, a u32 of 2^31 or more is the   *)
(* negative representative, and the unsigned order is ULt32.  A u64       *)
(* cursor position is a record [hi, lo] of two such 32-bit halves, so     *)
(* that hi = 0 with lo >= 0 are the positions below 2^31 and hi = -1 are  *)
(* the positions within 2^32 of u64::MAX.                                 *)

MaxI32 == 2147483647

MinI32 == -MaxI32 - 1

Min(a, b) == IF a <= b THEN a ELSE b

None == <<>>

Some(v) == <<v>>

\* The build profiles an overflow may reveal: both while none was revealed.
Profiles(known) == IF known = "either" THEN {"on", "off"} ELSE {known}

\* a + b modulo 2^32, on representatives
Add32(a, b) ==
    IF b >= 0
    THEN IF a <= MaxI32 - b THEN a + b
         ELSE (a - MaxI32 - 1) + (b - MaxI32 - 1)
    ELSE IF a >= MinI32 - b THEN a + b
         ELSE (a + MaxI32 + 1) + (b + MaxI32 + 1)

\* the carry (0 or 1) of the unsigned 32-bit addition a + b
UCarry32(a, b) ==
    IF a >= 0 /\ b >= 0 THEN 0
    ELSE IF a < 0 /\ b < 0 THEN 1
    ELSE IF a + b >= 0 THEN 1 ELSE 0

\* a < b as u32
ULt32(a, b) == IF (a >= 0) = (b >= 0) THEN a < b ELSE a >= 0

\* u32::from_le_bytes and i32::from_le_bytes (one representative for both)
U32FromLeBytes(b) ==
    b[1] + 256 * b[2] + 65536 * b[3]
      + 16777216 * (IF b[4] >= 128 THEN b[4] - 256 ELSE b[4])

I32FromLeBytes(b) == U32FromLeBytes(b)

\* a u32 zero-extended to u64, and a u64 truncated to u32 (`as u32`)
PosOf(x) == [hi |-> 0, lo |-> x]

AsU32(p) == p.lo

\* an i32 sign-extended to 64 bits (`offset as i64`)
SignExtend(x) == [hi |-> IF x < 0 THEN -1 ELSE 0, lo |-> x]

\* 64-bit addition modulo 2^64 (`(a as i64 + b as i64) as u64`)
Add64(p, q) ==
    [hi |-> Add32(Add32(p.hi, q.hi), UCarry32(p.lo, q.lo)),
     lo |-> Add32(p.lo, q.lo)]

\* whether the u64 addition p + n (0 <= n < 2^31) overflows
Overflows64(p, n) == p.hi = -1 /\ UCarry32(p.lo, n) = 1

\* p <= n as u64, for a length n below 2^31
PosLe(p, n) == p.hi = 0 /\ p.lo >= 0 /\ p.lo <= n

-----------------------------------------------------------------------------
(* std::io::Cursor<&Vec<u8>> as BinReader uses it.  A read takes           *)
(* min(n, bytes left) bytes from min(position, len) and advances the      *)
(* position by the number of bytes taken; a position past the end reads   *)
(* nothing and stays.                                                     *)

\* (a cursor that advanced by the requested size whatever it read)
CursorReadUnclamped(d, p, n) ==
    LET start == IF PosLe(p, Len(d)) THEN p.lo ELSE Len(d)
        k     == Min(n, Len(d) - start)
    IN  [bytes |-> SubSeq(d, start + 1, start + k),
         pos   |-> Add64(p, PosOf(n))]

CursorRead(d, p, n) ==
    LET start == IF PosLe(p, Len(d)) THEN p.lo ELSE Len(d)
        k     == Min(n, Len(d) - start)
    IN  [bytes |-> SubSeq(d, start + 1, start + k),
         pos   |-> Add64(p, PosOf(k))]

\* BinReader::set_position
set_position(offset) == PosOf(offset)

\* BinReader::set_position_relative
set_position_relative(p, offset) == Add64(p, SignExtend(offset))

\* BinReader::read_u32: Some(value) only when all four bytes were read
read_u32(d, p) ==
    LET r == CursorRead(d, p, 4)
    IN  [val |-> IF Len(r.bytes) = 4 THEN Some(U32FromLeBytes(r.bytes)) ELSE None,
         pos |-> r.pos]

\* BinReader::read_i32
read_i32(d, p) ==
    LET r == CursorRead(d, p, 4)
    IN  [val |-> IF Len(r.bytes) = 4 THEN Some(I32FromLeBytes(r.bytes)) ELSE None,
         pos |-> r.pos]

\* BinReader::read_u8
read_u8(d, p) ==
    LET r == CursorRead(d, p, 1)
    IN  [val |-> IF Len(r.bytes) = 1 THEN Some(r.bytes[1]) ELSE None,
         pos |-> r.pos]

\* String::from_utf8: well-formed UTF-8 (RFC 3629 ranges, as Rust checks them)
IsCont(b) == b >= 128 /\ b <= 191

RECURSIVE Utf8Valid(_)
Utf8Valid(s) ==
    IF s = <<>> THEN TRUE
    ELSE LET b == s[1] n == Len(s) IN
         IF b < 128 THEN Utf8Valid(Tail(s))
         ELSE IF b >= 194 /\ b <= 223
              THEN n >= 2 /\ IsCont(s[2]) /\ Utf8Valid(SubSeq(s, 3, n))
         ELSE IF b >= 224 /\ b <= 239
              THEN /\ n >= 3
                   /\ IsCont(s[2]) /\ IsCont(s[3])
                   /\ (b = 224 => s[2] >= 160)
                   /\ (b = 237 => s[2] <= 159)
                   /\ Utf8Valid(SubSeq(s, 4, n))
         ELSE IF b >= 240 /\ b <= 244
              THEN /\ n >= 4
                   /\ IsCont(s[2]) /\ IsCont(s[3]) /\ IsCont(s[4])
                   /\ (b = 240 => s[2] >= 144)
                   /\ (b = 244 => s[2] <= 143)
                   /\ Utf8Valid(SubSeq(s, 5, n))
         ELSE FALSE

\* The address translations a caller may pass to read_cstr.
AdjustFns == {"none", "plus4"}

ApplyAdjust(adjust, v) ==
    IF adjust = "plus4" THEN Add32(v, 4) ELSE v

\* The `while let Some(byte) = self.read_u8()` loop of read_cstr: the bytes
\* from position p up to the first zero byte or the end of the buffer, and
\* the position the loop leaves the cursor at.
RECURSIVE CstrScan(_, _, _)
CstrScan(d, p, acc) ==
    LET r == read_u8(d, p) IN
    IF r.val = None THEN [buffer |-> acc, pos |-> r.pos]
    ELSE IF r.val[1] = 0 THEN [buffer |-> acc, pos |-> r.pos]
    ELSE CstrScan(d, r.pos, Append(acc, r.val[1]))

\* (a read_cstr that forgot to seek back)
CstrRestoreSkip(return_offset, scan_end) == scan_end

\* The position read_cstr leaves the cursor at once the pointer field was
\* read: `self.set_position(return_offset as u32)`.
CstrRestore(return_offset, scan_end) == set_position(AsU32(return_offset))

\* BinReader::read_cstr.  `self.get_position() + 4` is a u64 addition: it
\* overflows for a position within 4 of u64::MAX, which panics in a build
\* with overflow checks and wraps otherwise.
read_cstr(d, p, adjust, checks) ==
    IF Overflows64(p, 4) /\ checks = "on"
    THEN [val |-> None, pos |-> p, panicked |-> TRUE]
    ELSE
      LET return_offset == Add64(p, PosOf(4))
          r == read_u32(d, p)
      IN  IF r.val = None
          THEN [val |-> None, pos |-> r.pos, panicked |-> FALSE]
          ELSE
            LET position_to_string == ApplyAdjust(adjust, r.val[1])
                scan == CstrScan(d, set_position(position_to_string), <<>>)
            IN  [val |-> IF Utf8Valid(scan.buffer) THEN Some(scan.buffer) ELSE None,
                 pos |-> CstrRestore(return_offset, scan.pos),
                 panicked |-> FALSE]

-----------------------------------------------------------------------------
(* Specification SpecReader: any sequence of BinReader calls on any buffer *)

\* Byte values of the reader's buffers: the terminator, an ASCII byte (4 is
\* also a pointer into the buffer) and a UTF-8 lead byte with no continuation.
ReaderBytes == {0, 4, 195}

ReaderBuffers == UNION {[1..n -> ReaderBytes] : n \in 0..MaxLen}

SeekOffsets == 0..(MaxLen + PosSlack)

RelOffsets == {-8, -4, 4}

\* Positions the reader specification lets the cursor take: near the buffer,
\* or wrapped below zero by a relative seek.
PosInRange(p) ==
    \/ p.hi = 0 /\ p.lo >= 0 /\ p.lo <= MaxLen + PosSlack
    \/ p.hi = -1 /\ p.lo >= -8 /\ p.lo <= -1

Ret(op, from, val, panicked) ==
    [op |-> op, from |-> from, val |-> val, panicked |-> panicked]

\* Class::default()
DefaultClass == [name |-> <<>>, base |-> <<>>]

TnIdle ==
    /\ stack = <<>>
    /\ inherit_info = DefaultClass
    /\ start_data_rel_ro = 0
    /\ rtti_class_offsets = {}

DmIdle ==
    /\ dump = <<>>
    /\ addr_to_sym = <<>>
    /\ tables_done = 0
    /\ main_class_fields = <<>>
    /\ last_offset_to_this = 0
    /\ filler_counter = 0

\* The variables of the decoding calls, while no such call is modelled.
CallIdle == status = "idle" /\ truncated = FALSE

VtIdle ==
    /\ pc = "none"
    /\ vtable_addr = 0
    /\ cxxabi_offsets = {}
    /\ class_typeinfo = 0
    /\ table_offset = 0
    /\ result = <<>>
    /\ offset_to_this = 0
    /\ function_pointers = <<>>

InitReader ==
    /\ data \in ReaderBuffers
    /\ pos = PosOf(0)
    /\ overflow_checks = "either"
    /\ ret = Ret("new", PosOf(0), None, FALSE)
    /\ CallIdle
    /\ VtIdle
    /\ TnIdle
    /\ DmIdle

SetPosition ==
    /\ ~ret.panicked
    /\ \E offset \in SeekOffsets :
          /\ pos' = set_position(offset)
          /\ ret' = Ret("set_position", PosOf(0), None, FALSE)
    /\ UNCHANGED <<data, overflow_checks, notReader>>

SetPositionRelative ==
    /\ ~ret.panicked
    /\ \E offset \in RelOffsets :
          /\ pos' = set_position_relative(pos, offset)
          /\ PosInRange(pos')
          /\ ret' = Ret("set_position_relative", PosOf(0), None, FALSE)
    /\ UNCHANGED <<data, overflow_checks, notReader>>

ReadU32 ==
    /\ ~ret.panicked
    /\ LET r == read_u32(data, pos) IN
          /\ pos' = r.pos
          /\ ret' = Ret("read_u32", pos, r.val, FALSE)
    /\ UNCHANGED <<data, overflow_checks, notReader>>

ReadI32 ==
    /\ ~ret.panicked
    /\ LET r == read_i32(data, pos) IN
          /\ pos' = r.pos
          /\ ret' = Ret("read_i32", pos, r.val, FALSE)
    /\ UNCHANGED <<data, overflow_checks, notReader>>

ReadU8 ==
    /\ ~ret.panicked
    /\ LET r == read_u8(data, pos) IN
          /\ pos' = r.pos
          /\ ret' = Ret("read_u8", pos, r.val, FALSE)
    /\ UNCHANGED <<data, overflow_checks, notReader>>

ReadCstr ==
    /\ ~ret.panicked
    /\ \E adjust \in AdjustFns :
       \E checks \in (IF Overflows64(pos, 4) THEN Profiles(overflow_checks)
                                              ELSE {overflow_checks}) :
          LET r == read_cstr(data, pos, adjust, checks) IN
             /\ pos' = r.pos
             /\ ret' = Ret("read_cstr", pos, r.val, r.panicked)
             /\ overflow_checks' = checks
    /\ UNCHANGED <<data, notReader>>

NextReader ==
    \/ SetPosition
    \/ SetPositionRelative
    \/ ReadU32
    \/ ReadI32
    \/ ReadU8
    \/ ReadCstr

SpecReader == InitReader /\ [][NextReader]_vars

-----------------------------------------------------------------------------
(* Claims about BinReader, checked under SpecReader *)

IsRead(op) == op \in {"read_u32", "read_i32", "read_u8", "read_cstr"}

\* the bytes a read of kind op asks for first
FieldSize(op) == IF op = "read_u8" THEN 1 ELSE 4

\* the field at position p lies wholly inside the buffer
FieldInside(p, n) == p.hi = 0 /\ p.lo >= 0 /\ p.lo + n <= Len(data)

\* C1 as stated: whenever read_cstr returns, with a string or with a failure,
\* the cursor is 4 past the position the call started at.
C1_AlwaysStartPlus4 ==
    (ret.op = "read_cstr" /\ ~ret.panicked)
        => pos = Add64(ret.from, PosOf(4))

\* C1 amended: when the 4-byte pointer field lies inside the buffer, read_cstr
\* returns with the cursor 4 past its start, whether it returns a string or
\* fails on invalid UTF-8 and wherever the string lies; when the pointer field
\* is truncated it returns None and leaves the cursor where the short read
\* left it: at the end of the buffer, or unmoved if it was already past the end.
C1_CursorAfterCstr ==
    (ret.op = "read_cstr" /\ ~ret.panicked)
        => IF FieldInside(ret.from, 4)
           THEN pos = PosOf(ret.from.lo + 4)
           ELSE /\ ret.val = None
                /\ pos = IF PosLe(ret.from, Len(data))
                         THEN PosOf(Len(data)) ELSE ret.from

\* C1 witness: a read_cstr whose pointer field was read, whose string is not
\* UTF-8, and which still left the cursor 4 past its start.
C1_Witness ==
    /\ ret.op = "read_cstr"
    /\ FieldInside(ret.from, 4)
    /\ ret.val = None
    /\ pos = PosOf(ret.from.lo + 4)

\* C2 as stated: the cursor offset never exceeds the buffer length, no call
\* panics, and a read that would pass the end returns None.
C2_OffsetWithinBuffer ==
    /\ PosLe(pos, Len(data))
    /\ ~ret.panicked
    /\ (IsRead(ret.op) /\ ~FieldInside(ret.from, FieldSize(ret.op)))
           => ret.val = None

\* C2 amended: seeks are unchecked, so the offset may exceed the buffer length;
\* but a read never carries the cursor past the end (after a read the offset is
\* within the buffer, or is the offset the read started at), a read that would
\* pass the end returns None, and the only panic is read_cstr's return-point
\* addition overflowing u64 in a build with overflow checks.
C2_ReadsStayInBuffer ==
    /\ (IsRead(ret.op) /\ ~ret.panicked)
           => (PosLe(pos, Len(data)) \/ pos = ret.from)
    /\ (IsRead(ret.op) /\ ~FieldInside(ret.from, FieldSize(ret.op)))
           => ret.val = None
    /\ ret.panicked
           => (ret.op = "read_cstr" /\ overflow_checks = "on"
                 /\ Overflows64(ret.from, 4))

\* C2 witness: a read_u32 started past the end of the buffer returned None and
\* the cursor is still past the end.
C2_Witness ==
    /\ ret.op = "read_u32"
    /\ ret.val = None
    /\ ~ret.panicked
    /\ ~PosLe(pos, Len(data))

-----------------------------------------------------------------------------
(* get_class_vtable and handle_vtable, one action per straight-line piece *)

\* Pure reads of the buffer at an absolute offset, for stating properties.
U32At(off) == read_u32(data, PosOf(off)).val

I32At(off) == read_i32(data, PosOf(off)).val

\* a u32 addition a + b overflows (panic with overflow checks, wrap without)
U32AddOverflows(a, b) == UCarry32(a, b) = 1

\* (a peek that took a truncated header for the end of the class's tables)
PeekTruncatedStop == "returned"

\* get_class_vtable: `let typeinfo_addr = reader.read_u32().unwrap()` on None
PeekTruncated == "panicked"

\* (a peek that left the cursor behind the typeinfo field)
AfterPeekStay(offset, p) == p

\* get_class_vtable: `reader.set_position(table_offset)` after the peek
AfterPeek(offset, p) == set_position(offset)

\* (a boundary test that forgot the zero address)
SlotEndsGroupNoZero(addr, next_u32, typeinfo, offsets) ==
    LET in_typeinfo == next_u32 \in offsets
        in_offset_to_this == next_u32 = typeinfo
    IN  in_typeinfo \/ in_offset_to_this

\* handle_vtable: `in_typeinfo || in_offset_to_this || addr == 0`
SlotEndsGroup(addr, next_u32, typeinfo, offsets) ==
    LET in_typeinfo == next_u32 \in offsets
        in_offset_to_this == next_u32 = typeinfo
    IN  in_typeinfo \/ in_offset_to_this \/ addr = 0

\* (a break that only undid the lookahead)
RewindBreakShort(p) == set_position_relative(p, -4)

\* handle_vtable: `reader.set_position_relative(-8); break;`
RewindBreak(p) == set_position_relative(p, -8)

\* (a scan that stepped back over the slot it had just read)
RewindContinueStay(p) == set_position_relative(p, -8)

\* handle_vtable: `reader.set_position_relative(-4);` before the push
RewindContinue(p) == set_position_relative(p, -4)

\* (a result built newest group first)
GroupPushFront(groups, table) == <<table>> \o groups

\* get_class_vtable: `result.push(table)`
GroupPush(groups, table) == Append(groups, table)

\* a panic of the vtable call with the cursor at p
VtPanic(p, trunc) ==
    /\ status' = "panicked"
    /\ truncated' = (truncated \/ trunc)
    /\ pos' = p
    /\ UNCHANGED vtVars

\* The build profiles the u32 addition a + b may run under: it tells the
\* profiles apart only when it overflows.
AddProfiles(a, b) ==
    IF U32AddOverflows(a, b) THEN Profiles(overflow_checks) ELSE {overflow_checks}

\* get_class_vtable, up to the loop (lines 251-257)
GcvStart ==
    /\ status = "running" /\ pc = "start"
    /\ \E checks \in AddProfiles(vtable_addr, 4) :
       /\ overflow_checks' = checks
       /\ IF U32AddOverflows(vtable_addr, 4) /\ checks = "on"
          THEN VtPanic(pos, FALSE)
          ELSE \E r \in {read_u32(data, set_position(Add32(vtable_addr, 4)))} :
            IF r.val = None
            THEN VtPanic(r.pos, TRUE)
            ELSE /\ class_typeinfo' = r.val[1]
                 /\ pos' = set_position(vtable_addr)
                 /\ table_offset' = vtable_addr
                 /\ pc' = "loop"
                 /\ UNCHANGED <<callVars, vtable_addr, cxxabi_offsets, result,
                                offset_to_this, function_pointers>>
    /\ UNCHANGED <<data, notVtable>>

\* get_class_vtable, the head of one loop iteration (lines 260-266): peek the
\* typeinfo field of the table at table_offset and stop if it is another class's
GcvLoop ==
    /\ status = "running" /\ pc = "loop"
    /\ \E checks \in AddProfiles(table_offset, 4) :
       /\ overflow_checks' = checks
       /\ IF U32AddOverflows(table_offset, 4) /\ checks = "on"
          THEN VtPanic(pos, FALSE)
          ELSE \E r \in {read_u32(data, set_position(Add32(table_offset, 4)))} :
            IF r.val = None
            THEN /\ status' = PeekTruncated
                 /\ truncated' = TRUE
                 /\ pos' = r.pos
                 /\ UNCHANGED vtVars
            ELSE /\ pos' = AfterPeek(table_offset, r.pos)
                 /\ IF r.val[1] # class_typeinfo
                    THEN status' = "returned" /\ pc' = "done"
                    ELSE status' = status /\ pc' = "header"
                 /\ UNCHANGED <<truncated, vtable_addr, cxxabi_offsets,
                                class_typeinfo, table_offset, result,
                                offset_to_this, function_pointers>>
    /\ UNCHANGED <<data, notVtable>>

\* handle_vtable, up to the slot scan (lines 220-223)
HvHeader ==
    /\ status = "running" /\ pc = "header"
    /\ \E r \in {read_i32(data, pos)} :
       IF r.val = None
       THEN VtPanic(r.pos, TRUE)
       ELSE /\ offset_to_this' = r.val[1]
            /\ pos' = set_position_relative(r.pos, 4)
            /\ function_pointers' = <<>>
            /\ pc' = "scan"
            /\ UNCHANGED <<callVars, vtable_addr, cxxabi_offsets,
                           class_typeinfo, table_offset, result>>
    /\ UNCHANGED <<data, overflow_checks, notVtable>>

\* handle_vtable, one iteration of `while let Some(addr) = reader.read_u32()`
\* (lines 225-241); the loop is left on a slot read of None or on the break
HvScan ==
    /\ status = "running" /\ pc = "scan"
    /\ \E a \in {read_u32(data, pos)} :
       IF a.val = None
       THEN /\ truncated' = TRUE
            /\ pos' = a.pos
            /\ pc' = "push"
            /\ UNCHANGED <<status, vtable_addr, cxxabi_offsets, class_typeinfo,
                           table_offset, result, offset_to_this,
                           function_pointers>>
       ELSE \E n \in {read_u32(data, a.pos)} :
            IF n.val = None
            THEN VtPanic(n.pos, TRUE)
            ELSE IF SlotEndsGroup(a.val[1], n.val[1], class_typeinfo, cxxabi_offsets)
            THEN /\ pos' = RewindBreak(n.pos)
                 /\ pc' = "push"
                 /\ UNCHANGED <<callVars, vtable_addr, cxxabi_offsets,
                                class_typeinfo, table_offset, result,
                                offset_to_this, function_pointers>>
            ELSE /\ pos' = RewindContinue(n.pos)
                 /\ function_pointers' = Append(function_pointers, a.val[1])
                 /\ UNCHANGED <<callVars, pc, vtable_addr, cxxabi_offsets,
                                class_typeinfo, table_offset, result,
                                offset_to_this>>
    /\ UNCHANGED <<data, overflow_checks, notVtable>>

\* handle_vtable returns its pair and get_class_vtable pushes it and moves
\* table_offset to the cursor (lines 243, 268-270)
GcvPush ==
    /\ status = "running" /\ pc = "push"
    /\ result' = GroupPush(result, [offset_to_this |-> offset_to_this,
                                    function_pointers |-> function_pointers])
    /\ table_offset' = AsU32(pos)
    /\ pc' = "loop"
    /\ UNCHANGED <<data, pos, overflow_checks, notVtable, callVars, vtable_addr,
                   cxxabi_offsets, class_typeinfo, offset_to_this,
                   function_pointers>>

-----------------------------------------------------------------------------
(* Specification SpecVtable: get_class_vtable on any buffer of the family *)

\* Longest buffer of the vtable specification, in 4-byte words.
VtMaxWords == 7

\* Word values of the vtable buffers: zero, the type-info marker 12, and
\* 0xFFFFFFF8, which is the this-adjustment -8 and, as a u32, an address.
VtWords == {0, 12, -8}

\* the three __*_class_type_info vtable addresses + 8 (main, lines 330-334)
CxxabiOffsets == {12, 16, 20}

\* vtable symbol addresses tried, 0xFFFFFFFC among them
VtAddrs == {0, 4, -4}

\* the four little-endian bytes of a 32-bit value
LeBytes(w) ==
    <<w % 256, (w \div 256) % 256, (w \div 65536) % 256, (w \div 16777216) % 256>>

RECURSIVE Flatten(_)
Flatten(ws) == IF ws = <<>> THEN <<>> ELSE LeBytes(Head(ws)) \o Flatten(Tail(ws))

\* trailing bytes after the last whole word: none, or half a word
Tails == {<<>>, <<0, 0>>}

VtBuffers ==
    UNION {{Flatten(ws) \o t : ws \in [1..n -> VtWords], t \in Tails}
             : n \in 0..VtMaxWords}

InitVtable ==
    /\ data \in VtBuffers
    /\ pos = PosOf(0)
    /\ overflow_checks = "either"
    /\ ret = Ret("new", PosOf(0), None, FALSE)
    /\ status = "running"
    /\ truncated = FALSE
    /\ pc = "start"
    /\ vtable_addr \in VtAddrs
    /\ cxxabi_offsets = CxxabiOffsets
    /\ class_typeinfo = 0
    /\ table_offset = 0
    /\ result = <<>>
    /\ offset_to_this = 0
    /\ function_pointers = <<>>
    /\ TnIdle
    /\ DmIdle

NextVtable ==
    \/ GcvStart
    \/ GcvLoop
    \/ HvHeader
    \/ HvScan
    \/ GcvPush

SpecVtable == InitVtable /\ [][NextVtable]_vars

\* get_class_vtable as the single thread runs it: a call that can take a step
\* takes it (no suspension points, no cancellation).
SpecVtableFair == SpecVtable /\ WF_vars(NextVtable)

-----------------------------------------------------------------------------
(* Claims about get_class_vtable, checked under SpecVtable *)

Abs(x) == IF x < 0 THEN -x ELSE x

Groups == 1..Len(result)

\* Where the k-th group of the result starts if the groups lie back to back
\* from vtable_addr: 8 header bytes and 4 bytes per function each.
RECURSIVE GroupOffset(_)
GroupOffset(k) ==
    IF k = 1 THEN vtable_addr
    ELSE GroupOffset(k - 1) + 8 + 4 * Len(result[k - 1].function_pointers)

\* the slot of the i-th function (from 1) of the k-th group
SlotOffset(k, i) == GroupOffset(k) + 8 + 4 * (i - 1)

\* C3 as stated: no returned group lists the address 0 or a type-info marker
\* offset among its functions.
C3_NoZeroNoMarker ==
    status = "returned" =>
        \A k \in Groups :
            \A i \in 1..Len(result[k].function_pointers) :
                /\ result[k].function_pointers[i] # 0
                /\ result[k].function_pointers[i] \notin cxxabi_offsets

\* C3 amended: no returned group lists the address 0, and no listed function
\* is a slot whose following 4 bytes hold a type-info marker offset or the
\* class's type_info address; the marker test is on the lookahead, so a marker
\* address stored in a slot that is followed by something else is listed.
C3_NoZeroNoMarkerAhead ==
    status = "returned" =>
        \A k \in Groups :
            \A i \in 1..Len(result[k].function_pointers) :
                /\ result[k].function_pointers[i] # 0
                /\ U32At(SlotOffset(k, i) + 4) # None
                /\ U32At(SlotOffset(k, i) + 4)[1]
                       \notin (cxxabi_offsets \cup {class_typeinfo})

\* C3 witness: a returned group that lists a marker offset as a function.
C3_Witness ==
    /\ status = "returned"
    /\ \E k \in Groups :
          \E i \in 1..Len(result[k].function_pointers) :
              result[k].function_pointers[i] \in cxxabi_offsets

\* C5: whenever get_class_vtable returns, there is a first group and its
\* offset_to_this is the i32 stored at vtable_addr.
C5_FirstGroupOffset ==
    status = "returned" =>
        /\ Len(result) >= 1
        /\ Some(result[1].offset_to_this) = I32At(vtable_addr)

\* C5 witness: a returned result whose first group has a negative adjustment.
C5_Witness ==
    /\ status = "returned"
    /\ Len(result) >= 1
    /\ result[1].offset_to_this = -8

\* C7 as stated: the returned groups are in ascending order of the absolute
\* value of offset_to_this.
C7_AscendingAbs ==
    status = "returned" =>
        \A k \in Groups :
            k > 1 => Abs(result[k - 1].offset_to_this)
                        <= Abs(result[k].offset_to_this)

\* C7 amended: the returned groups are in buffer order, the primary group (the
\* one at vtable_addr) first and each later group at a higher table offset; the
\* offset_to_this of the k-th group is whatever is stored at the k-th table
\* offset, so their absolute values ascend only if the binary stores them so.
C7_BufferOrder ==
    status = "returned" =>
        /\ Len(result) >= 1
        /\ \A k \in Groups :
              /\ Some(result[k].offset_to_this) = I32At(GroupOffset(k))
              /\ k > 1 => GroupOffset(k - 1) < GroupOffset(k)

\* C7 witness: two returned groups whose adjustments descend in absolute value.
C7_Witness ==
    /\ status = "returned"
    /\ Len(result) >= 2
    /\ Abs(result[1].offset_to_this) > Abs(result[2].offset_to_this)

\* C10: every returned group starts at a table offset whose typeinfo field is
\* the class's type_info address (the u32 at vtable_addr + 4); the groups lie
\* back to back; the i-th function of a group is the u32 in its i-th slot; and
\* the table offset after the last group has another typeinfo field.
C10_GroupsContiguous ==
    status = "returned" =>
        /\ Some(class_typeinfo) = U32At(vtable_addr + 4)
        /\ \A k \in Groups :
              /\ U32At(GroupOffset(k) + 4) = Some(class_typeinfo)
              /\ \A i \in 1..Len(result[k].function_pointers) :
                    Some(result[k].function_pointers[i]) = U32At(SlotOffset(k, i))
        /\ U32At(GroupOffset(Len(result) + 1) + 4) # None
        /\ U32At(GroupOffset(Len(result) + 1) + 4) # Some(class_typeinfo)

\* C10 witness: two returned groups, the first with a function.
C10_Witness ==
    /\ status = "returned"
    /\ Len(result) >= 2
    /\ Len(result[1].function_pointers) >= 1

\* table_offset moves up by at least 8 bytes, as u32 and without wrapping
TableOffsetAdvances ==
    /\ ~U32AddOverflows(table_offset, 8)
    /\ ~ULt32(table_offset', Add32(table_offset, 8))

\* One iteration of get_class_vtable's loop, by its pieces: the peek stops
\* (returns), fails, or enters handle_vtable; a failure inside the loop is a
\* truncated read; and the push ends the iteration with table_offset advanced.
OuterIteration ==
    /\ pc = "loop" => status' \in {"returned", "panicked"} \/ pc' = "header"
    /\ (pc # "start" /\ status' = "panicked") => truncated'
    /\ pc = "push" => pc' = "loop" /\ status' = "running" /\ TableOffsetAdvances

\* One iteration of handle_vtable's slot scan: it leaves the loop (slot read
\* of None, or break), fails on the lookahead, or goes on with the cursor
\* exactly 4 bytes further and one more function listed.
ScanIteration ==
    pc = "scan" =>
        \/ pc' = "push"
        \/ status' = "panicked"
        \/ /\ pc' = "scan"
           /\ PosLe(pos, Len(data))
           /\ pos' = PosOf(pos.lo + 4)
           /\ Len(function_pointers') = Len(function_pointers) + 1

-----------------------------------------------------------------------------
(* handle_typename.  The Class tree is a record [name, base] whose base is  *)
(* a sequence of such records; a node is addressed by its path, the         *)
(* sequence of child indices from the root (the `output` reference of an    *)
(* activation).  An activation is a record of the function's locals.        *)

RECURSIVE NodeAt(_, _)
NodeAt(tree, path) ==
    IF path = <<>> THEN tree ELSE NodeAt(tree.base[Head(path)], Tail(path))

RECURSIVE PutAt(_, _, _)
PutAt(tree, path, node) ==
    IF path = <<>> THEN node
    ELSE [tree EXCEPT !.base[Head(path)] = PutAt(@, Tail(path), node)]

\* `output.name = name`
SetName(tree, path, name) ==
    PutAt(tree, path, [NodeAt(tree, path) EXCEPT !.name = name])

\* Class::push_base on the node at path: appends a default Class
push_base(tree, path) ==
    PutAt(tree, path, [NodeAt(tree, path) EXCEPT !.base = Append(@, DefaultClass)])

\* the path of the node push_base returns (`self.base.last_mut()`)
LastBase(tree, path) == Append(path, Len(NodeAt(tree, path).base) + 1)

\* (a dispatch that tests the pointer range before the type-class match)
TypenameCaseRangeFirst(second_field, start, offsets) ==
    IF ULt32(start, second_field) THEN "single"
    ELSE IF second_field \in offsets THEN "bare"
    ELSE "third"

\* handle_typename: the tests on second_field (lines 126-150), in order
TypenameCase(second_field, start, offsets) ==
    IF second_field \in offsets THEN "bare"
    ELSE IF ULt32(start, second_field) THEN "single"
    ELSE "third"

\* handle_typename: `third_field > start_data_rel_ro` (line 155)
ThirdIsOverrun(third_field, start) == ULt32(start, third_field)

\* (an array scan that went on from wherever the child's decoding stopped)
LoopRestoreSkip(return_offset, p) == p

\* handle_typename: `reader.set_position(return_offset.try_into().unwrap())`
LoopRestore(return_offset, p) == set_position(AsU32(return_offset))

Frame(output, offset, phase, count, i, return_offset) ==
    [output |-> output, offset |-> offset, phase |-> phase,
     base_class_count |-> count, i |-> i, return_offset |-> return_offset]

\* the activation of a fresh call handle_typename(reader, output, offset, ..)
Call(output, offset) == Frame(output, offset, "enter", 0, 0, PosOf(0))

Top == stack[Len(stack)]

SetTop(f) == [stack EXCEPT ![Len(stack)] = f]

\* Deepest recursion the model follows; the call stack is exhausted beyond.
MaxDepth == 3

\* a panic of the handle_typename call with the cursor at p
TnPanic(p, trunc) ==
    /\ status' = "panicked"
    /\ truncated' = (truncated \/ trunc)
    /\ pos' = p
    /\ UNCHANGED <<stack, inherit_info>>

\* a recursive call: the callee's activation is pushed, or the stack overflows
TnCall(caller, tree, child) ==
    IF Len(stack) >= MaxDepth
    THEN /\ status' = "stack_overflow"
         /\ stack' = SetTop(caller)
         /\ inherit_info' = tree
    ELSE /\ status' = status
         /\ stack' = Append(SetTop(caller), Call(LastBase(tree, caller.output), child))
         /\ inherit_info' = push_base(tree, caller.output)

\* handle_typename from its entry to the dispatch on second_field and
\* third_field (lines 117-165)
TnEnter ==
    /\ status = "running" /\ stack # <<>> /\ Top.phase = "enter"
    /\ \E checks \in AddProfiles(Top.offset, 4) :
       /\ overflow_checks' = checks
       /\ IF U32AddOverflows(Top.offset, 4) /\ checks = "on"
          THEN TnPanic(pos, FALSE)
          ELSE
            LET p0 == set_position(Add32(Top.offset, 4))
                name == read_cstr(data, p0, "none", checks)
                second == read_u32(data, name.pos)
            IN
            IF name.val = None
            THEN TnPanic(name.pos, read_u32(data, p0).val = None)
            ELSE IF second.val = None
            THEN TnPanic(second.pos, TRUE)
            ELSE
              LET named == SetName(inherit_info, Top.output, name.val[1])
                  case == TypenameCase(second.val[1], start_data_rel_ro,
                                       rtti_class_offsets)
                  third == read_u32(data, second.pos)
              IN
              IF case = "bare"
              THEN /\ stack' = SetTop([Top EXCEPT !.phase = "return"])
                   /\ inherit_info' = named
                   /\ pos' = second.pos
                   /\ UNCHANGED callVars
              ELSE IF case = "single"
              THEN /\ TnCall([Top EXCEPT !.phase = "single"], named, second.val[1])
                   /\ pos' = second.pos
                   /\ UNCHANGED truncated
              ELSE IF third.val = None
              THEN /\ status' = "panicked"
                   /\ truncated' = TRUE
                   /\ pos' = third.pos
                   /\ inherit_info' = named
                   /\ UNCHANGED stack
              ELSE /\ stack' = SetTop(
                        IF ThirdIsOverrun(third.val[1], start_data_rel_ro)
                        THEN [Top EXCEPT !.phase = "return"]
                        ELSE [Top EXCEPT !.phase = "loop",
                                         !.base_class_count = third.val[1]])
                   /\ inherit_info' = named
                   /\ pos' = third.pos
                   /\ UNCHANGED callVars
    /\ UNCHANGED <<data, start_data_rel_ro, rtti_class_offsets, notTypename>>

\* handle_typename, one step of `for _ in 0..base_class_count` (lines 180-194):
\* leave the loop, or read the next pair and call handle_typename on it
TnLoop ==
    /\ status = "running" /\ stack # <<>> /\ Top.phase = "loop"
    /\ IF Top.i = Top.base_class_count
       THEN /\ stack' = SetTop([Top EXCEPT !.phase = "return"])
            /\ UNCHANGED <<pos, callVars, inherit_info>>
       ELSE
         LET type_descriptor == read_u32(data, pos)
             base_attribute == read_u32(data, type_descriptor.pos)
         IN
         IF type_descriptor.val = None
         THEN TnPanic(type_descriptor.pos, TRUE)
         ELSE IF base_attribute.val = None
         THEN TnPanic(base_attribute.pos, TRUE)
         ELSE /\ TnCall([Top EXCEPT !.i = @ + 1,
                                    !.return_offset = base_attribute.pos],
                        inherit_info, type_descriptor.val[1])
              /\ pos' = base_attribute.pos
              /\ UNCHANGED truncated
    /\ UNCHANGED <<data, overflow_checks, start_data_rel_ro, rtti_class_offsets,
                   notTypename>>

\* handle_typename returns: to main, or into the caller's activation, which
\* returns in its turn (line 149) or seeks back to its array (line 195)
TnReturn ==
    /\ status = "running" /\ stack # <<>> /\ Top.phase = "return"
    /\ IF Len(stack) = 1
       THEN /\ status' = "returned"
            /\ stack' = <<>>
            /\ pos' = pos
       ELSE LET caller == stack[Len(stack) - 1]
                rest == SubSeq(stack, 1, Len(stack) - 1)
            IN  /\ status' = status
                /\ IF caller.phase = "single"
                   THEN /\ stack' = [rest EXCEPT ![Len(rest)].phase = "return"]
                        /\ pos' = pos
                   ELSE /\ stack' = rest
                        /\ pos' = LoopRestore(caller.return_offset, pos)
    /\ UNCHANGED <<data, overflow_checks, truncated, inherit_info,
                   start_data_rel_ro, rtti_class_offsets, notTypename>>

-----------------------------------------------------------------------------
(* Specification SpecTypename: handle_typename on any buffer of the family *)

\* Length of the buffers of the handle_typename specification, in words.
TnMaxWords == 8

\* Word values of the type_info buffers: zero, the small number 2 (a count or
\* an attribute), and the addresses 12 and 16.
TnWords == {0, 2, 12, 16}

\* Word 0 is the root type_info's reference to its type class, which
\* handle_typename skips: it holds one value in every buffer.
TnBuffers ==
    {Flatten(<<16>> \o ws) : ws \in [1..(TnMaxWords - 1) -> TnWords]}

\* starts of .data.rel.ro tried: below both addresses, and equal to one
TnStarts == {2, 12}

\* the three type-class vtable addresses + 8 (main, lines 330-334): 16 is
\* both one of them and an address inside the buffer
TnClassOffsets == {16, 20, 24}

InitTypename ==
    /\ data \in TnBuffers
    /\ pos = PosOf(0)
    /\ overflow_checks = "either"
    /\ ret = Ret("new", PosOf(0), None, FALSE)
    /\ status = "running"
    /\ truncated = FALSE
    /\ VtIdle
    /\ stack = <<Call(<<>>, 0)>>
    /\ inherit_info = DefaultClass
    /\ start_data_rel_ro \in TnStarts
    /\ rtti_class_offsets = TnClassOffsets
    /\ DmIdle

NextTypename ==
    \/ TnEnter
    \/ TnLoop
    \/ TnReturn

SpecTypename == InitTypename /\ [][NextTypename]_vars

-----------------------------------------------------------------------------
(* The dump-vtable-ida branch of main: the main struct's fields.  A field   *)
(* is a record in place of its formatted text: "char fill_{n}[{size}]" is   *)
(* [kind |-> "fill", n, size] and "{class}_{offset}_vft* __vtable_{offset}" *)
(* is [kind |-> "vtable", offset].                                          *)

\* i32 arithmetic: whether it overflows, and its wrapped result
I32AbsOverflows(x) == x = MinI32

I32Abs(x) == IF x < 0 /\ x # MinI32 THEN -x ELSE x

I32SubOverflows(a, b) ==
    IF b > 0 THEN a < MinI32 + b
    ELSE IF b < 0 THEN a > MaxI32 + b
    ELSE FALSE

I32Sub(a, b) == IF b = MinI32 THEN Add32(a, MinI32) ELSE Add32(a, -b)

FillField(n, size) == [kind |-> "fill", n |-> n, size |-> size]

VtableField(offset) == [kind |-> "vtable", offset |-> offset]

\* the i32 operations of one loop iteration that overflow on this table
TableOverflows(table, last) ==
    \/ I32AbsOverflows(table.offset_to_this)
    \/ I32SubOverflows(I32Abs(table.offset_to_this), last)
    \/ I32SubOverflows(I32Sub(I32Abs(table.offset_to_this), last), 4)

\* What the printing of a function needs to know of its symbol: a destructor
\* (ends with "D1Ev" or "D0Ev", printed without demangling), a name the
\* demangler takes, or one it rejects.
SymbolKinds == {"dtor", "demangles", "rejected"}

\* `addr_to_sym[addr]` panics on an address without a symbol, and the
\* `.expect` on the demangler on a symbol it rejects
SymbolsKnown(table) ==
    \A i \in 1..Len(table.function_pointers) :
        /\ table.function_pointers[i] \in DOMAIN addr_to_sym
        /\ addr_to_sym[table.function_pointers[i]] # "rejected"

\* main, one iteration of `for table in dump` (lines 391-463)
DumpTable ==
    /\ status = "running" /\ tables_done < Len(dump)
    /\ LET table == dump[tables_done + 1] IN
       \E checks \in (IF TableOverflows(table, last_offset_to_this)
                      THEN Profiles(overflow_checks) ELSE {overflow_checks}) :
          /\ overflow_checks' = checks
          /\ IF TableOverflows(table, last_offset_to_this) /\ checks = "on"
             THEN /\ status' = "panicked"
                  /\ UNCHANGED <<tables_done, main_class_fields,
                                 last_offset_to_this, filler_counter>>
             ELSE
               LET abs_offset == I32Abs(table.offset_to_this)
                   filler_size == I32Sub(I32Sub(abs_offset, last_offset_to_this), 4)
                   filled == IF filler_size > 0
                             THEN Append(main_class_fields,
                                         FillField(filler_counter, filler_size))
                             ELSE main_class_fields
               IN  /\ main_class_fields' = Append(filled, VtableField(abs_offset))
                   /\ filler_counter' = IF filler_size > 0 THEN filler_counter + 1
                                                           ELSE filler_counter
                   /\ last_offset_to_this' = abs_offset
                   /\ tables_done' = tables_done + 1
                   /\ status' = IF SymbolsKnown(table) THEN status ELSE "panicked"
    /\ UNCHANGED <<dump, addr_to_sym, notDump>>

\* main, after the loop: the main struct is printed (lines 465-469)
DumpMainStruct ==
    /\ status = "running" /\ tables_done = Len(dump)
    /\ status' = "returned"
    /\ UNCHANGED <<overflow_checks, dmVars, notDump>>

-----------------------------------------------------------------------------
(* Specification SpecDump: the struct dump of any result of get_class_vtable *)

\* Most groups in a dumped result.
DumpMaxGroups == 3

\* this-adjustments of the dumped groups: 4 and 8 bytes above 0, a negative
\* one, and the largest i32
DumpOffsets == {0, 4, 8, -12, MaxI32}

\* function lists of the dumped groups
DumpFunctions == {<<>>, <<-8>>}

DumpTables ==
    {[offset_to_this |-> o, function_pointers |-> f] :
        o \in DumpOffsets, f \in DumpFunctions}

InitDump ==
    /\ data = <<>>
    /\ pos = PosOf(0)
    /\ overflow_checks = "either"
    /\ ret = Ret("new", PosOf(0), None, FALSE)
    /\ status = "running"
    /\ truncated = FALSE
    /\ VtIdle
    /\ TnIdle
    /\ dump \in UNION {[1..n -> DumpTables] : n \in 1..DumpMaxGroups}
    /\ addr_to_sym \in UNION {[as -> SymbolKinds] : as \in {{}, {-8}}}
    /\ tables_done = 0
    /\ main_class_fields = <<>>
    /\ last_offset_to_this = 0
    /\ filler_counter = 0

NextDump ==
    \/ DumpTable
    \/ DumpMainStruct

SpecDump == InitDump /\ [][NextDump]_vars

-----------------------------------------------------------------------------
(* Claim about the struct dump, checked under SpecDump *)

\* |offset_to_this| of the k-th dumped group, and of the group before it
AbsOffset(k) == Abs(dump[k].offset_to_this)

PrevAbsOffset(k) == IF k = 1 THEN 0 ELSE AbsOffset(k - 1)

\* the k-th group's gap exceeds the pointer size
GapExceedsPointer(k) == AbsOffset(k) - PrevAbsOffset(k) > 4

\* the fields the claim gives the main struct for the first k groups
RECURSIVE ClaimedFields(_)
ClaimedFields(k) ==
    IF k = 0 THEN <<>>
    ELSE LET before == ClaimedFields(k - 1)
             fillers == Cardinality({j \in 1..(k - 1) : GapExceedsPointer(j)})
         IN  (IF GapExceedsPointer(k)
              THEN Append(before, FillField(fillers,
                                            AbsOffset(k) - PrevAbsOffset(k) - 4))
              ELSE before)
             \o <<VtableField(AbsOffset(k))>>

\* C8 as stated: the printed main struct has one vtable-pointer field per
\* group, in group order, and a filler right before a group's pointer field
\* exactly when that group's |offset_to_this| exceeds the previous group's by
\* more than 4, sized the gap minus 4.
C8_FillerExactlyOnGap ==
    status = "returned" => main_class_fields = ClaimedFields(Len(dump))

\* C8 where no i32 operation overflowed (the build profile was never told
\* apart): the printed fields are the claimed ones.
C8_FillerOnGapWithoutOverflow ==
    (status = "returned" /\ overflow_checks = "either")
        => main_class_fields = ClaimedFields(Len(dump))

\* C8, the scenario of the claim: groups at 0 and 8 give two pointer fields
\* with one 4-byte filler between them.
C8_ScenarioReached ==
    /\ status = "returned"
    /\ Len(dump) = 2
    /\ dump[1].offset_to_this = 0 /\ dump[2].offset_to_this = 8
    /\ main_class_fields = <<VtableField(0), FillField(0, 4), VtableField(8)>>

-----------------------------------------------------------------------------
(* Specification SpecDecode: either decoding call, on the buffers of its    *)
(* own specification                                                        *)

InitDecode == InitTypename \/ InitVtable

NextDecode == NextTypename \/ NextVtable

SpecDecode == InitDecode /\ [][NextDecode]_vars

-----------------------------------------------------------------------------
(* Claims about handle_typename, checked under SpecTypename.  What the      *)
(* buffer holds at a type_info is read here at absolute offsets, apart from *)
(* the cursor.                                                              *)

\* the name, second field and third field of the type_info at offset
NameOf(offset) == read_cstr(data, PosOf(offset + 4), "none", "off").val

SecondOf(offset) == U32At(offset + 8)[1]

ThirdOf(offset) == U32At(offset + 12)[1]

\* the type_descriptor of the j-th pair (from 1) of the array at offset
PairDesc(offset, j) == U32At(offset + 16 + 8 * (j - 1))[1]

SecondIsClass(offset) == SecondOf(offset) \in rtti_class_offsets

SecondIsBase(offset) ==
    ~SecondIsClass(offset) /\ ULt32(start_data_rel_ro, SecondOf(offset))

HasThird(offset) == ~SecondIsClass(offset) /\ ~SecondIsBase(offset)

IsOverrun(offset) ==
    HasThird(offset) /\ ULt32(start_data_rel_ro, ThirdOf(offset))

IsArray(offset) == HasThird(offset) /\ ~IsOverrun(offset)

Frames == 1..Len(stack)

\* the activation at depth n has got past its dispatch
Dispatched(n) == stack[n].phase # "enter"

\* the node the activation at depth n fills in
NodeOf(n) == NodeAt(inherit_info, stack[n].output)

\* the j-th child of the activation at depth n has its name: every child but
\* one whose own activation has not yet read it
ChildNamed(n, j) ==
    \/ j < Len(NodeOf(n).base)
    \/ n = Len(stack)
    \/ Dispatched(n + 1)

\* C4: a type_info that encodes no base gives a node with no children; one with
\* a base-class array gives one child per pair consumed, the j-th child named
\* by the type_info the j-th pair of the array points to, the count of the
\* array in all once the scan is over; and whenever the scan is about to go on,
\* however deep the subtree just decoded, the cursor is right after the last
\* pair consumed.
C4_ArrayChildrenInOrder ==
    /\ status = "running" =>
          \A n \in Frames :
              /\ (stack[n].phase = "return" /\ SecondIsClass(stack[n].offset))
                     => NodeOf(n).base = <<>>
              /\ (Dispatched(n) /\ IsArray(stack[n].offset)) =>
                    /\ Len(NodeOf(n).base) = stack[n].i
                    /\ stack[n].phase = "return"
                           => stack[n].i = ThirdOf(stack[n].offset)
                    /\ \A j \in 1..stack[n].i :
                          ChildNamed(n, j) =>
                              Some(NodeOf(n).base[j].name)
                                  = NameOf(PairDesc(stack[n].offset, j))
                    /\ n = Len(stack)
                           => pos = PosOf(stack[n].offset + 16 + 8 * stack[n].i)
    /\ status = "returned" =>
          /\ SecondIsClass(0) => inherit_info.base = <<>>
          /\ IsArray(0) =>
                /\ Len(inherit_info.base) = ThirdOf(0)
                /\ \A j \in 1..Len(inherit_info.base) :
                      Some(inherit_info.base[j].name) = NameOf(PairDesc(0, j))

\* C4 witness: a returned tree of two children from a two-pair array, whose
\* first child has a base of its own and whose children differ in name.
C4_Witness ==
    /\ status = "returned"
    /\ IsArray(0)
    /\ Len(inherit_info.base) = 2
    /\ Len(inherit_info.base[1].base) = 1
    /\ inherit_info.base[1].name # inherit_info.base[2].name

\* C9: the children of a node are decided by the first case that matches:
\* second_field a type-class vtable offset, no children, even if it is above
\* data_rel_ro_start; else second_field above data_rel_ro_start, one child,
\* decoded at second_field; else third_field above data_rel_ro_start, no
\* children and the cursor right after third_field (no pair read); else
\* third_field is the base count.  A second_field equal to data_rel_ro_start
\* is not a base pointer.
C9_CasePrecedence ==
    status = "running" =>
        \A n \in Frames : Dispatched(n) =>
            LET offset == stack[n].offset
                node == NodeOf(n)
            IN
            /\ SecondIsClass(offset)
                   => (stack[n].phase = "return" /\ node.base = <<>>)
            /\ SecondIsBase(offset) =>
                   /\ stack[n].phase \in {"single", "return"}
                   /\ Len(node.base) = 1
                   /\ stack[n].phase = "single"
                          => stack[n + 1].offset = SecondOf(offset)
                   /\ ChildNamed(n, 1)
                          => Some(node.base[1].name) = NameOf(SecondOf(offset))
            /\ IsOverrun(offset) =>
                   /\ stack[n].phase = "return"
                   /\ node.base = <<>>
                   /\ n = Len(stack) => pos = PosOf(offset + 16)
            /\ IsArray(offset) =>
                   /\ stack[n].phase \in {"loop", "return"}
                   /\ stack[n].base_class_count = ThirdOf(offset)
                   /\ stack[n].phase = "return"
                          => Len(node.base) = ThirdOf(offset)
            /\ SecondOf(offset) = start_data_rel_ro => ~SecondIsBase(offset)

\* C9 witness: an activation that stopped without children on a second_field
\* that is a type-class vtable offset and is also above data_rel_ro_start.
C9_Witness ==
    /\ status = "running"
    /\ stack # <<>>
    /\ Top.phase = "return"
    /\ SecondIsClass(Top.offset)
    /\ ULt32(start_data_rel_ro, SecondOf(Top.offset))
    /\ NodeOf(Len(stack)).base = <<>>

-----------------------------------------------------------------------------
(* Claim about both decoding calls, checked under SpecDecode *)

\* C6: once a 4-byte read of handle_typename, get_class_vtable or
\* handle_vtable has run past the end of the buffer, the call does not return:
\* it has panicked, or (the slot read that ends handle_vtable's scan) it is on
\* its way to the next header peek.
C6_TruncatedReadAborts ==
    truncated =>
        \/ status = "panicked"
        \/ status = "running" /\ pc \in {"push", "loop"}

\* C6 witness: get_class_vtable panicked on a truncated read with a group
\* already in its result.
C6_Witness ==
    /\ status = "panicked"
    /\ truncated
    /\ Len(result) >= 1

=============================================================================
